---- MODULE Spec2Model ----
(***************************************************************************)
(* Model of the concurrent transactions simulator: N Transacao threads     *)
(* sharing two Recurso objects (X, Y), one wait-for graph (grafo_espera)   *)
(* and one global mutex (lock_global).  Every read or write of shared      *)
(* state that the code performs outside lock_global is a step of its own;  *)
(* the statements executed inside `with self.lock_global` are steps taken  *)
(* while the worker owns lock_global.                                      *)
(***************************************************************************)
EXTENDS Integers, Sequences, FiniteSets, TLC

\* ---------------------------------------------------------------- bounds
MaxWorkers == 3
MaxTs == 2

\* ---------------------------------------------------------------- values
None == "None"
True == "True"
TidTable == <<"T0", "T1", "T2", "T3", "T4">>
Recursos == <<"X", "Y">>
RecursoIds == {"X", "Y"}

VARIABLES
    transacoes_timestamp,  \* tid -> timestamp (its DOMAIN is the set of threads)
    pc,                    \* tid -> position of the thread in run / lock / abort
    opi,                   \* tid -> index of the statement of run being executed
    other_tid,             \* tid -> local other_tid of lock_recurso
    terminada,             \* tid -> Transacao.terminada
    result,                \* tid -> item -> outcome of lock_recurso(item)
    valor_lock,            \* item -> Recurso.valor_lock
    transacao,             \* item -> Recurso.transacao (the holder)
    fila_espera,           \* item -> Recurso.fila_espera
    nodes,                 \* nodes of grafo_espera
    edges,                 \* edges of grafo_espera
    lock_global            \* owner of lock_global, or None

vars == <<transacoes_timestamp, pc, opi, other_tid, terminada, result,
          valor_lock, transacao, fila_espera, nodes, edges, lock_global>>

Tids == DOMAIN transacoes_timestamp

\* ---------------------------------------------------------------- helpers
\* run: even timestamp -> X, Y, X, Y ; odd timestamp -> Y, X, Y, X
Schedule(t) ==
    IF transacoes_timestamp[t] % 2 = 0
    THEN <<"X", "Y", "X", "Y">>
    ELSE <<"Y", "X", "Y", "X">>

\* the item of the statement of run the thread is executing
Item(t) == Schedule(t)[opi[t] + 1]

\* position at which statement number i of run starts
OpStart(i) == IF i < 2 THEN "lock_t1" ELSE IF i < 4 THEN "unlock" ELSE "commit"

\* list.remove: drops the first occurrence
RECURSIVE Remove(_, _)
Remove(q, t) ==
    IF q = <<>> THEN <<>>
    ELSE IF Head(q) = t THEN Tail(q)
    ELSE <<Head(q)>> \o Remove(Tail(q), t)

InSeq(q, t) == \E i \in 1..Len(q) : q[i] = t

\* nodes reachable by a non-empty path of the graph from a set of nodes
RECURSIVE Reachable(_, _, _)
Reachable(es, frontier, seen) ==
    LET nxt == {e[2] : e \in {f \in es : f[1] \in frontier}} \ seen
    IN  IF nxt = {} THEN seen ELSE Reachable(es, nxt, seen \cup nxt)

\* detect_deadlock: self.tid lies on some simple cycle of grafo_espera.
\* The enumeration is taken as one read of the graph; when it fails because
\* the graph changes under it, the except clause answers False and the wait
\* loop asks again in its next iteration, which reaches no further state.
detect_deadlock(t) == t \in Reachable(edges, {t}, {})

\* DiGraph.remove_node: the node and every incident edge
RemoveNodeEdges(es, t) == {e \in es : e[1] # t /\ e[2] # t}

\* ---------------------------------------------------------------- Init
Init ==
    /\ \E numero_transacoes \in 1..MaxWorkers :
          transacoes_timestamp \in
              [{TidTable[i] : i \in 1..numero_transacoes} -> 1..MaxTs]
    /\ pc = [t \in Tids |-> "start"]
    /\ opi = [t \in Tids |-> 0]
    /\ other_tid = [t \in Tids |-> None]
    /\ terminada = [t \in Tids |-> FALSE]
    /\ result = [t \in Tids |-> [r \in RecursoIds |-> "none"]]
    /\ valor_lock = [r \in RecursoIds |-> None]
    /\ transacao = [r \in RecursoIds |-> None]
    /\ fila_espera = [r \in RecursoIds |-> <<>>]
    /\ nodes = {}
    /\ edges = {}
    /\ lock_global = None

\* ---------------------------------------------------------------- run
\* control returns to run, which goes on to its next statement
Advance(t) ==
    /\ opi' = [opi EXCEPT ![t] = opi[t] + 1]
    /\ pc' = [pc EXCEPT ![t] = OpStart(opi[t] + 1)]

\* a run that calls lock_recurso again on the same item after a False
ReturnLockRetry(t, val) ==
    /\ result' = [result EXCEPT ![t][Item(t)] = val]
    /\ IF val = "false"
       THEN /\ pc' = [pc EXCEPT ![t] = OpStart(opi[t])]
            /\ UNCHANGED opi
       ELSE Advance(t)

\* lock_recurso returns val to run (run ignores the value)
ReturnLock(t, val) ==
    /\ result' = [result EXCEPT ![t][Item(t)] = val]
    /\ Advance(t)

\* the finally clause left out: the flag keeps its value
RunFinallyOmitted(term, t) == term

\* run, lines 70-71: finally: self.terminada = True
RunFinally(term, t) == [term EXCEPT ![t] = TRUE]

\* an exception other than AbortException leaves lock_recurso and run:
\* only the finally clause of run is executed (terminada = True)
Raise(t) ==
    /\ result' = [result EXCEPT ![t][Item(t)] = "error"]
    /\ terminada' = RunFinally(terminada, t)
    /\ pc' = [pc EXCEPT ![t] = "crashed"]
    /\ UNCHANGED opi

\* run, line 33: while not self.terminada
RunStart(t) ==
    /\ pc[t] = "start"
    /\ pc' = [pc EXCEPT ![t] = IF terminada[t] THEN "committed" ELSE OpStart(0)]
    /\ UNCHANGED <<transacoes_timestamp, opi, other_tid, terminada, result,
                   valor_lock, transacao, fila_espera, nodes, edges, lock_global>>

\* ---------------------------------------------------------------- lock_recurso
\* line 89, first operand: recurso.valor_lock is None (read without lock_global)
LockTest1(t) ==
    /\ pc[t] = "lock_t1"
    /\ pc' = [pc EXCEPT ![t] =
                IF valor_lock[Item(t)] = None THEN "lock_t2" ELSE "c3_read"]
    /\ UNCHANGED <<transacoes_timestamp, opi, other_tid, terminada, result,
                   valor_lock, transacao, fila_espera, nodes, edges, lock_global>>

\* line 89, second operand: not recurso.fila_espera (read without lock_global)
LockTest2(t) ==
    /\ pc[t] = "lock_t2"
    /\ pc' = [pc EXCEPT ![t] =
                IF fila_espera[Item(t)] = <<>> THEN "c1_w1" ELSE "c3_read"]
    /\ UNCHANGED <<transacoes_timestamp, opi, other_tid, terminada, result,
                   valor_lock, transacao, fila_espera, nodes, edges, lock_global>>

\* lines 90-91: with self.lock_global: recurso.valor_lock = True
Case1Lock(t) ==
    /\ pc[t] = "c1_w1"
    /\ lock_global = None
    /\ lock_global' = t
    /\ valor_lock' = [valor_lock EXCEPT ![Item(t)] = True]
    /\ pc' = [pc EXCEPT ![t] = "c1_w2"]
    /\ UNCHANGED <<transacoes_timestamp, opi, other_tid, terminada, result,
                   transacao, fila_espera, nodes, edges>>

\* lines 92-94: recurso.transacao = self.tid; return True (lock_global released)
Case1Holder(t) ==
    /\ pc[t] = "c1_w2"
    /\ transacao' = [transacao EXCEPT ![Item(t)] = t]
    /\ lock_global' = None
    /\ ReturnLock(t, "true")
    /\ UNCHANGED <<transacoes_timestamp, other_tid, terminada,
                   valor_lock, fila_espera, nodes, edges>>

\* lines 97-102: elif recurso.transacao == self.tid: return True
\*               else: other_tid = recurso.transacao
Case3Read(t) ==
    /\ pc[t] = "c3_read"
    /\ IF transacao[Item(t)] = t
       THEN /\ ReturnLock(t, "true")
            /\ UNCHANGED other_tid
       ELSE /\ other_tid' = [other_tid EXCEPT ![t] = transacao[Item(t)]]
            /\ pc' = [pc EXCEPT ![t] = "c3_append"]
            /\ UNCHANGED <<opi, result>>
    /\ UNCHANGED <<transacoes_timestamp, terminada,
                   valor_lock, transacao, fila_espera, nodes, edges, lock_global>>

\* line 105: recurso.fila_espera.append(self.tid) (without lock_global)
Case3Append(t) ==
    /\ pc[t] = "c3_append"
    /\ fila_espera' = [fila_espera EXCEPT ![Item(t)] = Append(@, t)]
    /\ pc' = [pc EXCEPT ![t] = "c3_edge"]
    /\ UNCHANGED <<transacoes_timestamp, opi, other_tid, terminada, result,
                   valor_lock, transacao, nodes, edges, lock_global>>

\* lines 109-110: if other_tid is not None: grafo_espera.add_edge(self.tid, other_tid)
\* (DiGraph.add_edge also adds both end nodes); then the wait loop is entered
Case3Edge(t) ==
    /\ pc[t] = "c3_edge"
    /\ IF other_tid[t] # None
       THEN /\ edges' = edges \cup {<<t, other_tid[t]>>}
            /\ nodes' = nodes \cup {t, other_tid[t]}
       ELSE UNCHANGED <<nodes, edges>>
    /\ pc' = [pc EXCEPT ![t] = "w_cs"]
    /\ UNCHANGED <<transacoes_timestamp, opi, other_tid, terminada, result,
                   valor_lock, transacao, fila_espera, lock_global>>

\* line 134: the grant test of the wait loop
GrantTest(t) ==
    /\ valor_lock[Item(t)] = None
    /\ \/ fila_espera[Item(t)] = <<>>
       \/ Head(fila_espera[Item(t)]) = t

\* lines 114, 131-135: one iteration of the wait loop takes lock_global and tests;
\* on success it writes valor_lock and stays in the critical section, otherwise
\* it leaves the critical section and goes on to detect_deadlock
WaitTry(t) ==
    /\ pc[t] = "w_cs"
    /\ lock_global = None
    /\ IF GrantTest(t)
       THEN /\ lock_global' = t
            /\ valor_lock' = [valor_lock EXCEPT ![Item(t)] = True]
            /\ pc' = [pc EXCEPT ![t] = "g_holder"]
       ELSE /\ pc' = [pc EXCEPT ![t] = "w_detect"]
            /\ UNCHANGED <<lock_global, valor_lock>>
    /\ UNCHANGED <<transacoes_timestamp, opi, other_tid, terminada, result,
                   transacao, fila_espera, nodes, edges>>

\* line 136: recurso.transacao = self.tid
GrantHolder(t) ==
    /\ pc[t] = "g_holder"
    /\ transacao' = [transacao EXCEPT ![Item(t)] = t]
    /\ pc' = [pc EXCEPT ![t] = "g_queue"]
    /\ UNCHANGED <<transacoes_timestamp, opi, other_tid, terminada, result,
                   valor_lock, fila_espera, nodes, edges, lock_global>>

\* lines 139-140 left out: the granted thread stays in the queue
GrantQueueKept(t) ==
    /\ pc[t] = "g_queue"
    /\ pc' = [pc EXCEPT ![t] = "g_has"]
    /\ UNCHANGED <<transacoes_timestamp, opi, other_tid, terminada, result,
                   valor_lock, transacao, fila_espera, nodes, edges, lock_global>>

\* lines 139-140: if self.tid in recurso.fila_espera: recurso.fila_espera.remove(self.tid)
GrantQueue(t) ==
    /\ pc[t] = "g_queue"
    /\ fila_espera' = [fila_espera EXCEPT ![Item(t)] = Remove(@, t)]
    /\ pc' = [pc EXCEPT ![t] = "g_has"]
    /\ UNCHANGED <<transacoes_timestamp, opi, other_tid, terminada, result,
                   valor_lock, transacao, nodes, edges, lock_global>>

\* line 143: if grafo_espera.has_edge(self.tid, other_tid); without the edge
\* lock_recurso returns True (line 148)
GrantHasEdge(t) ==
    /\ pc[t] = "g_has"
    /\ IF <<t, other_tid[t]>> \in edges
       THEN /\ pc' = [pc EXCEPT ![t] = "g_rm"]
            /\ UNCHANGED <<opi, result, lock_global>>
       ELSE /\ lock_global' = None
            /\ ReturnLock(t, "true")
    /\ UNCHANGED <<transacoes_timestamp, other_tid, terminada,
                   valor_lock, transacao, fila_espera, nodes, edges>>

\* line 144: grafo_espera.remove_edge(self.tid, other_tid), which raises
\* NetworkXError when the edge is gone (removed by the abort of other_tid,
\* which does not take lock_global); return True (line 148)
GrantRemoveEdge(t) ==
    /\ pc[t] = "g_rm"
    /\ lock_global' = None
    /\ IF <<t, other_tid[t]>> \in edges
       THEN /\ edges' = edges \ {<<t, other_tid[t]>>}
            /\ ReturnLock(t, "true")
            /\ UNCHANGED terminada
       ELSE /\ Raise(t)
            /\ UNCHANGED edges
    /\ UNCHANGED <<transacoes_timestamp, other_tid,
                   valor_lock, transacao, fila_espera, nodes>>

\* line 151: if self.detect_deadlock(); otherwise the next iteration
WaitDetect(t) ==
    /\ pc[t] = "w_detect"
    /\ pc' = [pc EXCEPT ![t] = IF detect_deadlock(t) THEN "wd_156" ELSE "w_cs"]
    /\ UNCHANGED <<transacoes_timestamp, opi, other_tid, terminada, result,
                   valor_lock, transacao, fila_espera, nodes, edges, lock_global>>

\* lines 156, 161-162: if recurso.transacao is not None: apply_wait_die
\*                     else: continue
WaitDieHolder(t) ==
    /\ pc[t] = "wd_156"
    /\ pc' = [pc EXCEPT ![t] =
                IF transacao[Item(t)] # None THEN "wd_218" ELSE "w_cs"]
    /\ UNCHANGED <<transacoes_timestamp, opi, other_tid, terminada, result,
                   valor_lock, transacao, fila_espera, nodes, edges, lock_global>>

\* apply_wait_die, lines 218-219: if recurso.transacao is None: return False,
\* after which lock_recurso returns False (line 158)
WaitDieGuard(t) ==
    /\ pc[t] = "wd_218"
    /\ IF transacao[Item(t)] = None
       THEN ReturnLock(t, "false")
       ELSE /\ pc' = [pc EXCEPT ![t] = "wd_222"]
            /\ UNCHANGED <<opi, result>>
    /\ UNCHANGED <<transacoes_timestamp, other_tid, terminada,
                   valor_lock, transacao, fila_espera, nodes, edges, lock_global>>

\* apply_wait_die, lines 224-229: the requester is older (minha_ts < outra_ts)
WaitDieOlder(minha_ts, outra_ts) == minha_ts < outra_ts

\* apply_wait_die, lines 221-231: outra_ts =
\* transacoes_timestamp[recurso.transacao].timestamp raises KeyError when the
\* holder is None by now; the older requester returns False, and lock_recurso
\* then returns False (line 158); the younger or equal requester calls abort
WaitDieDecide(t) ==
    /\ pc[t] = "wd_222"
    /\ IF transacao[Item(t)] = None
       THEN Raise(t)
       ELSE IF WaitDieOlder(transacoes_timestamp[t],
                            transacoes_timestamp[transacao[Item(t)]])
       THEN /\ ReturnLock(t, "false")
            /\ UNCHANGED terminada
       ELSE /\ pc' = [pc EXCEPT ![t] = "ab_q1"]
            /\ UNCHANGED <<opi, result, terminada>>
    /\ UNCHANGED <<transacoes_timestamp, other_tid,
                   valor_lock, transacao, fila_espera, nodes, edges, lock_global>>

\* ---------------------------------------------------------------- abort
AbQ == <<"ab_q1", "ab_q2">>
AbV == <<"ab_v1", "ab_v2">>
AbT == <<"ab_t1", "ab_t2">>
AbNext(i) == IF i < Len(Recursos) THEN AbQ[i + 1] ELSE "ab_node"

\* lines 251-253: for recurso in self.recursos.values():
\*     if tid in recurso.fila_espera: recurso.fila_espera.remove(tid)
AbortFila(t, i) ==
    /\ pc[t] = AbQ[i]
    /\ fila_espera' = [fila_espera EXCEPT ![Recursos[i]] = Remove(@, t)]
    /\ pc' = [pc EXCEPT ![t] = AbV[i]]
    /\ UNCHANGED <<transacoes_timestamp, opi, other_tid, terminada, result,
                   valor_lock, transacao, nodes, edges, lock_global>>

\* lines 255-257: if recurso.transacao == tid: recurso.valor_lock = None
AbortValor(t, i) ==
    /\ pc[t] = AbV[i]
    /\ IF transacao[Recursos[i]] = t
       THEN /\ valor_lock' = [valor_lock EXCEPT ![Recursos[i]] = None]
            /\ pc' = [pc EXCEPT ![t] = AbT[i]]
       ELSE /\ pc' = [pc EXCEPT ![t] = AbNext(i)]
            /\ UNCHANGED valor_lock
    /\ UNCHANGED <<transacoes_timestamp, opi, other_tid, terminada, result,
                   transacao, fila_espera, nodes, edges, lock_global>>

\* line 258: recurso.transacao = None
AbortHolder(t, i) ==
    /\ pc[t] = AbT[i]
    /\ transacao' = [transacao EXCEPT ![Recursos[i]] = None]
    /\ pc' = [pc EXCEPT ![t] = AbNext(i)]
    /\ UNCHANGED <<transacoes_timestamp, opi, other_tid, terminada, result,
                   valor_lock, fila_espera, nodes, edges, lock_global>>

\* lines 263-269 and run, lines 66-71: remove_node(tid) when the node exists,
\* terminada = True, AbortException raised through apply_wait_die and
\* lock_recurso to run, which catches it and ends
AbortNode(t) ==
    /\ pc[t] = "ab_node"
    /\ nodes' = nodes \ {t}
    /\ edges' = IF t \in nodes THEN RemoveNodeEdges(edges, t) ELSE edges
    /\ terminada' = [terminada EXCEPT ![t] = TRUE]
    /\ result' = [result EXCEPT ![t][Item(t)] = "abort"]
    /\ pc' = [pc EXCEPT ![t] = "aborted"]
    /\ UNCHANGED <<transacoes_timestamp, opi, other_tid,
                   valor_lock, transacao, fila_espera, lock_global>>

\* ---------------------------------------------------------------- unlock_recurso
\* the holder test of line 180 left out
UnlockValorUnchecked(t) ==
    /\ pc[t] = "unlock"
    /\ lock_global = None
    /\ lock_global' = t
    /\ valor_lock' = [valor_lock EXCEPT ![Item(t)] = None]
    /\ pc' = [pc EXCEPT ![t] = "un_2"]
    /\ UNCHANGED <<transacoes_timestamp, opi, other_tid, terminada, result,
                   transacao, fila_espera, nodes, edges>>

\* lines 177-183: with self.lock_global: if recurso.transacao == self.tid:
\*     recurso.valor_lock = None ; a non-holder leaves at once
UnlockValor(t) ==
    /\ pc[t] = "unlock"
    /\ lock_global = None
    /\ IF transacao[Item(t)] = t
       THEN /\ lock_global' = t
            /\ valor_lock' = [valor_lock EXCEPT ![Item(t)] = None]
            /\ pc' = [pc EXCEPT ![t] = "un_2"]
            /\ UNCHANGED opi
       ELSE /\ Advance(t)
            /\ UNCHANGED <<lock_global, valor_lock>>
    /\ UNCHANGED <<transacoes_timestamp, other_tid, terminada, result,
                   transacao, fila_espera, nodes, edges>>

\* line 184: recurso.transacao = None (lock_global released on return)
UnlockHolder(t) ==
    /\ pc[t] = "un_2"
    /\ transacao' = [transacao EXCEPT ![Item(t)] = None]
    /\ lock_global' = None
    /\ Advance(t)
    /\ UNCHANGED <<transacoes_timestamp, other_tid, terminada, result,
                   valor_lock, fila_espera, nodes, edges>>

\* run, lines 63-71 and 33: COMMIT logged, the finally clause, then the test
\* of the while loop, which ends the thread when terminada is set and
\* otherwise runs the schedule again from its first statement
Commit(t) ==
    /\ pc[t] = "commit"
    /\ terminada' = RunFinally(terminada, t)
    /\ pc' = [pc EXCEPT ![t] = IF terminada'[t] THEN "committed" ELSE OpStart(0)]
    /\ opi' = [opi EXCEPT ![t] = IF terminada'[t] THEN @ ELSE 0]
    /\ UNCHANGED <<transacoes_timestamp, other_tid, result,
                   valor_lock, transacao, fila_espera, nodes, edges, lock_global>>

\* ---------------------------------------------------------------- specification
\* the steps of thread t
Step(t) ==
    \/ RunStart(t)
    \/ LockTest1(t)
    \/ LockTest2(t)
    \/ Case1Lock(t)
    \/ Case1Holder(t)
    \/ Case3Read(t)
    \/ Case3Append(t)
    \/ Case3Edge(t)
    \/ WaitTry(t)
    \/ GrantHolder(t)
    \/ GrantQueue(t)
    \/ GrantHasEdge(t)
    \/ GrantRemoveEdge(t)
    \/ WaitDetect(t)
    \/ WaitDieHolder(t)
    \/ WaitDieGuard(t)
    \/ WaitDieDecide(t)
    \/ \E i \in 1..Len(Recursos) : AbortFila(t, i)
    \/ \E i \in 1..Len(Recursos) : AbortValor(t, i)
    \/ \E i \in 1..Len(Recursos) : AbortHolder(t, i)
    \/ AbortNode(t)
    \/ UnlockValor(t)
    \/ UnlockHolder(t)
    \/ Commit(t)

\* one step of one thread of the program
Next ==
    \/ \E t \in Tids : RunStart(t)
    \/ \E t \in Tids : LockTest1(t)
    \/ \E t \in Tids : LockTest2(t)
    \/ \E t \in Tids : Case1Lock(t)
    \/ \E t \in Tids : Case1Holder(t)
    \/ \E t \in Tids : Case3Read(t)
    \/ \E t \in Tids : Case3Append(t)
    \/ \E t \in Tids : Case3Edge(t)
    \/ \E t \in Tids : WaitTry(t)
    \/ \E t \in Tids : GrantHolder(t)
    \/ \E t \in Tids : GrantQueue(t)
    \/ \E t \in Tids : GrantHasEdge(t)
    \/ \E t \in Tids : GrantRemoveEdge(t)
    \/ \E t \in Tids : WaitDetect(t)
    \/ \E t \in Tids : WaitDieHolder(t)
    \/ \E t \in Tids : WaitDieGuard(t)
    \/ \E t \in Tids : WaitDieDecide(t)
    \/ \E t \in Tids : \E i \in 1..Len(Recursos) : AbortFila(t, i)
    \/ \E t \in Tids : \E i \in 1..Len(Recursos) : AbortValor(t, i)
    \/ \E t \in Tids : \E i \in 1..Len(Recursos) : AbortHolder(t, i)
    \/ \E t \in Tids : AbortNode(t)
    \/ \E t \in Tids : UnlockValor(t)
    \/ \E t \in Tids : UnlockHolder(t)
    \/ \E t \in Tids : Commit(t)

Spec == Init /\ [][Next]_vars

\* ---------------------------------------------------------------- vocabulary of the claims
Terminal == {"committed", "aborted", "crashed"}
AbortPcs == {"ab_q1", "ab_v1", "ab_t1", "ab_q2", "ab_v2", "ab_t2", "ab_node"}
WaitLoopPcs == {"w_cs", "w_detect", "wd_156", "wd_218", "wd_222"}

\* index in run of the unlock_recurso(r) statement of thread t
UnlockIdx(t, r) == IF Schedule(t)[3] = r THEN 2 ELSE 3

\* lock_recurso(r) of t returned True and t has since neither called
\* unlock_recurso(r) nor aborted
Holding(t, r) ==
    /\ result[t][r] = "true"
    /\ pc[t] \notin AbortPcs \cup {"aborted"}
    /\ \/ opi[t] < UnlockIdx(t, r)
       \/ opi[t] = UnlockIdx(t, r) /\ pc[t] = "unlock"

\* C1: mutual exclusion - for every resource at most one worker at a time has
\* been granted it (lock_recurso returned True) without having unlocked it or
\* aborted since
C1_MutualExclusion ==
    \A r \in RecursoIds : \A t \in Tids : \A u \in Tids :
        (Holding(t, r) /\ Holding(u, r)) => t = u

AllTerminated == \A t \in Tids : pc[t] \in Terminal

\* t occurs in no wait queue, holds no resource
NoResourceFootprint(t) ==
    \A r \in RecursoIds : transacao[r] # t /\ ~InSeq(fila_espera[r], t)

\* t is no node of grafo_espera and no edge is incident to t
NoGraphFootprint(t) ==
    /\ t \notin nodes
    /\ \A e \in edges : e[1] # t /\ e[2] # t

\* threads are scheduled fairly: a thread that can take a step again and again
\* (the wait loop, a free lock_global) eventually takes it
FairSpec ==
    /\ Spec
    /\ \A i \in 1..MaxWorkers :
          SF_vars(TidTable[i] \in Tids /\ Step(TidTable[i]))

\* C2: Wait-Die arbitration - a requester on a cycle that reaches the timestamp
\* comparison against the holder h of the contested resource keeps waiting for
\* that resource (wait loop, still queued) when ts_r < ts_h, and aborts when
\* ts_r >= ts_h
C2_WaitDieArbitration ==
    [][\A t \in Tids :
          (pc[t] = "wd_222" /\ pc'[t] # "wd_222" /\ transacao[Item(t)] # None)
          => IF transacoes_timestamp[t] < transacoes_timestamp[transacao[Item(t)]]
             THEN /\ pc'[t] \in WaitLoopPcs
                  /\ InSeq(fila_espera'[Item(t)], t)
             ELSE pc'[t] \in AbortPcs]_vars

\* C3: postcondition of lock - each completion of lock_recurso(r) by t is a
\* success with t the recorded holder of r, or a failure (False, AbortException)
\* with t terminated, holder of nothing and in no wait queue
C3_LockPostcondition ==
    [][\A t \in Tids : \A r \in RecursoIds :
          result'[t][r] # result[t][r]
          => \/ result'[t][r] = "true" /\ transacao'[r] = t
             \/ /\ result'[t][r] \in {"false", "abort"}
                /\ terminada'[t]
                /\ \A q \in RecursoIds :
                      transacao'[q] # t /\ ~InSeq(fila_espera'[q], t)]_vars

\* C4: progress - under fair scheduling every thread eventually terminates
C4_Progress == <>AllTerminated

\* C5: edge admission - every edge t -> u of the wait-for graph has ts_t < ts_u
C5_EdgeAdmission ==
    \A e \in edges : transacoes_timestamp[e[1]] < transacoes_timestamp[e[2]]

\* C6: no leaks under abort - a thread that completed abort is in no wait queue,
\* holds no resource and is no node of the wait-for graph, from then on
C6_NoLeaksAfterAbort ==
    \A t \in Tids :
        pc[t] = "aborted" => NoResourceFootprint(t) /\ NoGraphFootprint(t)

\* C7: no footprint after commit - a committed thread holds nothing, waits in
\* no queue and is off the wait-for graph; when all threads have terminated
\* every resource is free, every queue empty and the graph empty
C7_NoFootprintAfterCommit ==
    /\ \A t \in Tids :
          pc[t] = "committed" => NoResourceFootprint(t) /\ NoGraphFootprint(t)
    /\ AllTerminated =>
          /\ \A r \in RecursoIds :
                transacao[r] = None /\ valor_lock[r] = None /\ fila_espera[r] = <<>>
          /\ nodes = {} /\ edges = {}

\* C8: FIFO grants - a thread takes a resource (writes its lock value on the
\* immediate path or in the wait loop) only when no other thread is queued
\* ahead of it on that resource
C8_FifoGrants ==
    [][\A t \in Tids :
          (pc[t] \in {"c1_w1", "w_cs"} /\ pc'[t] \in {"c1_w2", "g_holder"})
          => \/ fila_espera[Item(t)] = <<>>
             \/ Head(fila_espera[Item(t)]) = t]_vars

\* C10: wait-for-graph soundness - outside a critical section of lock_global,
\* every edge t -> u has a resource held by u whose queue contains t
C10_GraphSoundness ==
    lock_global = None =>
        \A e \in edges :
            \E r \in RecursoIds : transacao[r] = e[2] /\ InSeq(fila_espera[r], e[1])

\* ---------------------------------------------------------------- the AB-BA scenario
\* main with two transactions whose timestamps have opposite parity, so that
\* one takes X then Y and the other Y then X
InitAbBa ==
    /\ Init
    /\ Tids = {TidTable[1], TidTable[2]}
    /\ transacoes_timestamp[TidTable[1]] % 2 # transacoes_timestamp[TidTable[2]] % 2

\* the delays of run make every thread finish its first lock_recurso before any
\* thread enters its second one
FirstLocksDone == \A u \in Tids : result[u][Schedule(u)[1]] = "true"

\* the second lock_recurso of t may start
SecondLockAllowed(t) == opi[t] = 1 => FirstLocksDone

NextAbBa ==
    \/ \E t \in Tids : RunStart(t)
    \/ \E t \in Tids : SecondLockAllowed(t) /\ LockTest1(t)
    \/ \E t \in Tids : LockTest2(t)
    \/ \E t \in Tids : Case1Lock(t)
    \/ \E t \in Tids : Case1Holder(t)
    \/ \E t \in Tids : Case3Read(t)
    \/ \E t \in Tids : Case3Append(t)
    \/ \E t \in Tids : Case3Edge(t)
    \/ \E t \in Tids : WaitTry(t)
    \/ \E t \in Tids : GrantHolder(t)
    \/ \E t \in Tids : GrantQueue(t)
    \/ \E t \in Tids : GrantHasEdge(t)
    \/ \E t \in Tids : GrantRemoveEdge(t)
    \/ \E t \in Tids : WaitDetect(t)
    \/ \E t \in Tids : WaitDieHolder(t)
    \/ \E t \in Tids : WaitDieGuard(t)
    \/ \E t \in Tids : WaitDieDecide(t)
    \/ \E t \in Tids : \E i \in 1..Len(Recursos) : AbortFila(t, i)
    \/ \E t \in Tids : \E i \in 1..Len(Recursos) : AbortValor(t, i)
    \/ \E t \in Tids : \E i \in 1..Len(Recursos) : AbortHolder(t, i)
    \/ \E t \in Tids : AbortNode(t)
    \/ \E t \in Tids : UnlockValor(t)
    \/ \E t \in Tids : UnlockHolder(t)
    \/ \E t \in Tids : Commit(t)

SpecAbBa == InitAbBa /\ [][NextAbBa]_vars

Older == CHOOSE o \in Tids : \A u \in Tids : transacoes_timestamp[o] <= transacoes_timestamp[u]
Younger == CHOOSE y \in Tids : \A u \in Tids : transacoes_timestamp[y] >= transacoes_timestamp[u]

\* C9: two-worker AB-BA scenario - when each thread acquires its first resource
\* before either requests its second, the younger aborts and the older is
\* granted its second resource and commits: never both commit, never both
\* abort, never the older commits without its second resource granted
C9_AbBaOutcome ==
    /\ pc[Older] = "committed" => result[Older][Schedule(Older)[2]] = "true"
    /\ ~(pc[Older] = "committed" /\ pc[Younger] = "committed")
    /\ ~(pc[Older] = "aborted" /\ pc[Younger] = "aborted")
    /\ AllTerminated => pc[Younger] = "aborted" /\ pc[Older] = "committed"

\* ---------------------------------------------------------------- further claims
\* positions of the grant critical section of the wait loop (lines 135-148)
GrantPcs == {"g_holder", "g_queue", "g_has", "g_rm"}

\* t is inside the wait of lock_recurso: polling, being granted or aborting
InWait(t) == pc[t] \in WaitLoopPcs \cup GrantPcs \cup AbortPcs

\* C11: durable deadlock is broken - a cycle of the wait-for graph does not
\* outlive the wait of the workers on it: whenever a cycle exists, some worker
\* on a cycle is still inside its wait (polling, being granted or aborting),
\* so no cycle is left behind for ever
C11_DeadlockBroken ==
    \A t \in Tids :
        detect_deadlock(t) => \E u \in Tids : detect_deadlock(u) /\ InWait(u)

\* C12: a fatal worker error is contained - a worker ended by an unexpected
\* error has terminada set, holds no resource, is in no wait queue and has no
\* node or edge in the wait-for graph
C12_FatalErrorContained ==
    \A t \in Tids :
        pc[t] = "crashed" =>
            terminada[t] /\ NoResourceFootprint(t) /\ NoGraphFootprint(t)

\* C13: the holder is never in its own queue - outside the grant critical
\* section (between the write of the holder and the removal from the queue),
\* a resource held by t does not have t in its fila_espera
C13_HolderNotQueued ==
    \A r \in RecursoIds : \A t \in Tids :
        (transacao[r] = t /\ ~(pc[t] = "g_queue" /\ Item(t) = r))
        => ~InSeq(fila_espera[r], t)

\* a thread was granted a resource out of its queue while another is still queued
C13_Witness ==
    \E r \in RecursoIds : \E t \in Tids :
        /\ transacao[r] = t
        /\ pc[t] = "g_has" /\ Item(t) = r
        /\ fila_espera[r] # <<>>

C15_UnlockNonHolderNoOp ==
    [][\A t \in Tids :
          (/\ pc[t] \in {"unlock", "un_2"}
           /\ pc'[t] # pc[t] \/ opi'[t] # opi[t]
           /\ transacao[Item(t)] # t)
          => UNCHANGED <<valor_lock, transacao, fila_espera, nodes, edges>>]_vars

\* a thread has gone through unlock_recurso(r) for a resource r whose
\* lock_recurso returned False to it, and r is still held by another thread
C15_Witness ==
    \E t \in Tids : \E r \in RecursoIds :
        /\ result[t][r] = "false"
        /\ opi[t] > UnlockIdx(t, r)
        /\ transacao[r] \notin {None, t}
        /\ valor_lock[r] = True

\* ---------------------------------------------------------------- Recurso.acquire / Recurso.release
\* The methods of Recurso called directly by clients named by the tids (no
\* Transacao thread runs).  Each method body runs under the resource's own
\* _lock and is one step.  pc[t] records the outcome of the last call of t and
\* opi[t] the number of calls t has made, at most MaxCalls.
MaxCalls == 3

\* Recurso.acquire, lines 44-53
Acquire(t, r) ==
    /\ opi[t] < MaxCalls
    /\ opi' = [opi EXCEPT ![t] = @ + 1]
    /\ IF valor_lock[r] = None
       THEN /\ valor_lock' = [valor_lock EXCEPT ![r] = t]
            /\ transacao' = [transacao EXCEPT ![r] = t]
            /\ pc' = [pc EXCEPT ![t] = "acquire_true"]
            /\ UNCHANGED fila_espera
       ELSE /\ fila_espera' = [fila_espera EXCEPT ![r] =
                                 IF InSeq(@, t) THEN @ ELSE Append(@, t)]
            /\ pc' = [pc EXCEPT ![t] = "acquire_false"]
            /\ UNCHANGED <<valor_lock, transacao>>
    /\ UNCHANGED <<transacoes_timestamp, other_tid, terminada, result,
                   nodes, edges, lock_global>>

\* Recurso.release, lines 62-70 (fila_espera.pop(0) drops the head of the queue)
Release(t, r) ==
    /\ opi[t] < MaxCalls
    /\ opi' = [opi EXCEPT ![t] = @ + 1]
    /\ pc' = [pc EXCEPT ![t] = "release"]
    /\ IF valor_lock[r] = t
       THEN /\ valor_lock' = [valor_lock EXCEPT ![r] = None]
            /\ transacao' = [transacao EXCEPT ![r] = None]
            /\ fila_espera' = [fila_espera EXCEPT ![r] =
                                 IF @ # <<>> THEN Tail(@) ELSE @]
       ELSE UNCHANGED <<valor_lock, transacao, fila_espera>>
    /\ UNCHANGED <<transacoes_timestamp, other_tid, terminada, result,
                   nodes, edges, lock_global>>

\* the clients of the resources; timestamps play no role in Recurso
InitRecurso ==
    /\ Init
    /\ \A t \in Tids : transacoes_timestamp[t] = 1

NextRecurso ==
    \/ \E t \in Tids : \E r \in RecursoIds : Acquire(t, r)
    \/ \E t \in Tids : \E r \in RecursoIds : Release(t, r)

SpecRecurso == InitRecurso /\ [][NextRecurso]_vars

\* C15 (the Recurso.release part): a release(t) call in a state where the
\* holder of a resource is not t leaves that resource's lock value, holder and
\* wait queue unchanged, whichever resource the call was made on.
C15_ReleaseNonHolderNoOp ==
    [][\A t \in Tids :
          (opi'[t] # opi[t] /\ pc'[t] = "release")
          => \A r \in RecursoIds :
                valor_lock[r] # t =>
                    /\ valor_lock'[r] = valor_lock[r]
                    /\ transacao'[r] = transacao[r]
                    /\ fila_espera'[r] = fila_espera[r]]_vars

\* C16: in every reachable state no transaction id occurs more than once in
\* the wait queue of a resource.
C16_NoDuplicates ==
    \A r \in RecursoIds :
        \A i, j \in DOMAIN fila_espera[r] :
            i # j => fila_espera[r][i] # fila_espera[r][j]

C16_Witness ==
    \E r \in RecursoIds :
        /\ Len(fila_espera[r]) >= 2
        /\ \E t \in Tids : result[t][r] = "false" /\ InSeq(fila_espera[r], t)

\* C17: in every state where no thread is inside a lock_global critical
\* section, a worker that waits in the loop of lock_recurso on resource r and
\* is in the queue of r has an edge to the current holder of r.
C17_GraphCompleteness ==
    lock_global = None =>
        \A r \in RecursoIds : \A t \in Tids :
            (/\ pc[t] \in WaitLoopPcs
             /\ Item(t) = r
             /\ InSeq(fila_espera[r], t)
             /\ transacao[r] \notin {None, t})
            => <<t, transacao[r]>> \in edges

\* C18: every step that changes a resource's lock value, holder or wait queue,
\* or the wait-for graph, is taken by a thread that holds lock_global before
\* the step (it is inside the critical section) or after it (the step enters
\* the critical section).
C18_WritesUnderMutex ==
    [][<<valor_lock, transacao, fila_espera, nodes, edges>>'
           # <<valor_lock, transacao, fila_espera, nodes, edges>>
       => \E t \in Tids :
             /\ pc'[t] # pc[t]
             /\ lock_global = t \/ lock_global' = t]_vars

\* C19: over the acquire and release calls of several tids, a step that makes
\* tid the holder of a resource starts where the resource has no holder and
\* its wait queue is empty or headed by tid, and ends with tid out of the
\* wait queue.
C19_GrantGate ==
    [][\A t \in Tids : \A r \in RecursoIds :
          (transacao'[r] = t /\ transacao[r] # t)
          => /\ transacao[r] = None
             /\ fila_espera[r] = <<>> \/ Head(fila_espera[r]) = t
             /\ ~InSeq(fila_espera'[r], t)]_vars

\* C20: a step of abort taken by worker t sets no other worker's terminada,
\* changes no holder field of a resource held by another worker, removes no
\* other worker from a wait queue, and removes from the graph only node t and
\* edges incident to t.
C20_OnlyRequesterVictim ==
    [][\A t \in Tids :
          (pc[t] \in AbortPcs /\ pc'[t] # pc[t])
          => /\ \A u \in Tids \ {t} : terminada'[u] = terminada[u]
             /\ \A r \in RecursoIds :
                   transacao[r] \notin {None, t} =>
                       /\ transacao'[r] = transacao[r]
                       /\ valor_lock'[r] = valor_lock[r]
             /\ \A r \in RecursoIds : \A u \in Tids \ {t} :
                   InSeq(fila_espera[r], u) => InSeq(fila_espera'[r], u)
             /\ nodes \ nodes' \subseteq {t}
             /\ \A e \in edges \ edges' : e[1] = t \/ e[2] = t]_vars

\* C21: a worker is in the committed state only if both of its lock_recurso
\* calls returned True; a worker with a lock request that was not granted
\* never commits.
C21_CommitImpliesLocks ==
    \A t \in Tids :
        pc[t] = "committed" => \A r \in RecursoIds : result[t][r] = "true"

====
